---- MODULE Spec2Model ----
(***************************************************************************)
(* Antigravity-Manager: the token pool auto-connect watchdog               *)
(* (useTokenPoolAutoConnect) and the warmup schedule settings              *)
(* (Settings.tsx scheduled_warmup section, SmartWarmup.tsx).               *)
(*                                                                         *)
(* Conventions.                                                            *)
(*  - A time string "HH:MM" is the tuple <<h, m>>; the empty string of a   *)
(*    cleared time input is <<>>.                                          *)
(*  - JavaScript array indexes are 0-based, sequences here are 1-based:    *)
(*    window idx of the source is position idx + 1.                        *)
(*  - An optional field (possibly undefined) is [def, val].                *)
(*  - A React effect is run in the same step as the change of its          *)
(*    dependencies (cleanup of the previous run first).                    *)
(***************************************************************************)
EXTENDS Integers, Sequences, FiniteSets, Bags, TLC

VARIABLES
    \* ---- useTokenPoolAutoConnect (src/unnamed/part_000)
    auto_connect,     \* config?.token_pool?.auto_connect (falsy = FALSE)
    server_url,       \* config?.token_pool?.server_url ("" = empty or absent)
    mounted,          \* the component owning the hook is mounted
    isConnecting,     \* isConnecting.current
    retryInterval,    \* retryInterval.current: a timer id, 0 = null
    timers,           \* active setInterval timers: records [id, url]
    hasCleanup,       \* the last effect run returned a cleanup function
    calls,            \* bag of running checkAndConnect invocations [pc, url]
    lastEvent,        \* history: the step just taken by the watchdog
    checkRan,         \* history: what checkAndConnect did in that step
    \* ---- Settings.tsx / SmartWarmup.tsx
    scheduled_warmup, \* formData.scheduled_warmup / the config prop
    lastCall,         \* history: the handler just called and its outcome
    \* ---- the warmup scheduler that consumes scheduled_warmup
    engine,           \* clock, per window fired flags, per model quota state
    \* ---- pure functions applied to drawn inputs
    probe,            \* the inputs drawn and the results computed from them
    \* ---- TokenPoolCard.tsx
    card              \* status and loading state, the pending handleToggle

wdVars == <<auto_connect, server_url, mounted, isConnecting, retryInterval,
            timers, hasCleanup, calls, lastEvent, checkRan>>
swVars == <<scheduled_warmup, lastCall>>
vars == <<auto_connect, server_url, mounted, isConnecting, retryInterval,
          timers, hasCleanup, calls, lastEvent, checkRan,
          scheduled_warmup, lastCall, engine, probe, card>>

(***************************************************************************)
(* Bounds                                                                  *)
(***************************************************************************)
MaxCalls == 3          \* checkAndConnect invocations running at once
MaxTimers == 2         \* timer ids available to setInterval
NumTimeChoices == 4    \* time strings typed into a schedule time input
NumPeakChoices == 1    \* time strings typed into a peak hour input

(***************************************************************************)
(* useTokenPoolAutoConnect                                                 *)
(***************************************************************************)
DefaultServerUrl == "ws://127.0.0.1:8046/ws/supplier"

ServerUrls == {"", "ws://a/ws/supplier", "ws://b/ws/supplier"}

\* status strings returned by tokenpool_status
Statuses == {"Disconnected", "Connecting", "Connected", "Error: refused"}

\* status.status.startsWith('Error')
StartsWithError(s) == s \in {"Error: refused"}

\* config.token_pool?.server_url || 'ws://127.0.0.1:8046/ws/supplier'
serverUrl(url) == IF url = "" THEN DefaultServerUrl ELSE url

\* status.status === 'Disconnected' || status.status.startsWith('Error')
NeedsConnect(s) == s = "Disconnected" \/ StartsWithError(s)

PcCalls(pc) == {c \in BagToSet(calls) : c.pc = pc}

\* number of tokenpool_connect calls of the watchdog awaiting their result
ConnectsInFlight == BagCardinality([c \in PcCalls("connect") |-> calls[c]])

\* number of tokenpool_status calls of the watchdog awaiting their result
StatusInFlight == BagCardinality([c \in PcCalls("status") |-> calls[c]])

AddCall(bag, c) == bag (+) SetToBag({c})
DropCall(bag, c) == bag (-) SetToBag({c})

\* CheckAndConnectStart without the isConnecting guard
CheckAndConnectStartNoGuard(flag, bag, url) ==
    [calls |-> AddCall(bag, [pc |-> "status", url |-> url]),
     ran |-> "queried"]

\* the synchronous start of checkAndConnect: the isConnecting guard, then
\* the tokenpool_status call is issued and the invocation suspends
CheckAndConnectStart(flag, bag, url) ==
    IF flag
    THEN [calls |-> bag, ran |-> "skipped"]
    ELSE [calls |-> AddCall(bag, [pc |-> "status", url |-> url]),
          ran |-> "queried"]

\* ClearRetryInterval without the clearInterval call: the ref is reset but
\* the timer keeps running
ClearRetryIntervalKeepsTimer(ref, ts) ==
    [retryInterval |-> 0, timers |-> ts]

\* clearInterval(retryInterval.current); retryInterval.current = null
ClearRetryInterval(ref, ts) ==
    IF ref # 0
    THEN [retryInterval |-> 0, timers |-> {t \in ts : t.id # ref}]
    ELSE [retryInterval |-> ref, timers |-> ts]

\* an effect that returns no cleanup function
EffectCleanupMissing(has, ref, ts) ==
    [retryInterval |-> ref, timers |-> ts]

\* the cleanup function returned by the effect, run by React before the
\* next run of the effect and at unmount
EffectCleanup(has, ref, ts) ==
    IF has THEN ClearRetryInterval(ref, ts)
    ELSE [retryInterval |-> ref, timers |-> ts]

FreeTimerIds(ts) == {i \in 1..MaxTimers : \A t \in ts : t.id # i}

\* RunEffect without the initial checkAndConnect() call
RunEffectNoInitialCheck(ac, url, flag, ref, ts, bag) ==
    IF ~ac
    THEN LET c == ClearRetryInterval(ref, ts) IN
         [retryInterval |-> c.retryInterval, timers |-> c.timers,
          calls |-> bag, ran |-> "none", hasCleanup |-> FALSE]
    ELSE LET id == CHOOSE i \in FreeTimerIds(ts) :
                       \A j \in FreeTimerIds(ts) : i <= j
         IN  [retryInterval |-> id,
              timers |-> ts \cup {[id |-> id, url |-> serverUrl(url)]},
              calls |-> bag, ran |-> "none", hasCleanup |-> TRUE]

\* RunEffect without the setInterval call: only the initial check runs
RunEffectNoInterval(ac, url, flag, ref, ts, bag) ==
    IF ~ac
    THEN LET c == ClearRetryInterval(ref, ts) IN
         [retryInterval |-> c.retryInterval, timers |-> c.timers,
          calls |-> bag, ran |-> "none", hasCleanup |-> FALSE]
    ELSE LET chk == CheckAndConnectStart(flag, bag, serverUrl(url)) IN
         [retryInterval |-> ref, timers |-> ts,
          calls |-> chk.calls, ran |-> chk.ran, hasCleanup |-> TRUE]

\* the effect body, run with the configuration ac, url
RunEffect(ac, url, flag, ref, ts, bag) ==
    IF ~ac
    THEN LET c == ClearRetryInterval(ref, ts) IN
         [retryInterval |-> c.retryInterval, timers |-> c.timers,
          calls |-> bag, ran |-> "none", hasCleanup |-> FALSE]
    ELSE LET chk == CheckAndConnectStart(flag, bag, serverUrl(url))
             id == CHOOSE i \in FreeTimerIds(ts) :
                       \A j \in FreeTimerIds(ts) : i <= j
         IN  [retryInterval |-> id,
              timers |-> ts \cup {[id |-> id, url |-> serverUrl(url)]},
              calls |-> chk.calls, ran |-> chk.ran, hasCleanup |-> TRUE]

WdInit ==
    /\ auto_connect = FALSE
    /\ server_url = ""
    /\ mounted = TRUE
    /\ isConnecting = FALSE
    /\ retryInterval = 0
    /\ timers = {}
    /\ hasCleanup = FALSE
    /\ calls = EmptyBag
    /\ lastEvent = "mount"
    /\ checkRan = "none"

\* the config store publishes a configuration whose auto_connect or
\* server_url differs: cleanup of the previous effect run, then the effect
ConfigChange(ac, url) ==
    /\ mounted
    /\ <<ac, url>> # <<auto_connect, server_url>>
    /\ LET cl == EffectCleanup(hasCleanup, retryInterval, timers) IN
       /\ ac => FreeTimerIds(cl.timers) # {}
       /\ (ac /\ ~isConnecting) => BagCardinality(calls) < MaxCalls
       /\ LET r == RunEffect(ac, url, isConnecting, cl.retryInterval,
                             cl.timers, calls) IN
          /\ retryInterval' = r.retryInterval
          /\ timers' = r.timers
          /\ calls' = r.calls
          /\ checkRan' = r.ran
          /\ hasCleanup' = r.hasCleanup
    /\ auto_connect' = ac
    /\ server_url' = url
    /\ lastEvent' = "effect"
    /\ UNCHANGED <<mounted, isConnecting, scheduled_warmup, lastCall, engine, probe,
                   card>>

\* a setInterval timer fires: checkAndConnect of the closure it was made in
Tick(t) ==
    /\ t \in timers
    /\ ~isConnecting => BagCardinality(calls) < MaxCalls
    /\ LET chk == CheckAndConnectStart(isConnecting, calls, t.url) IN
       /\ calls' = chk.calls
       /\ checkRan' = chk.ran
    /\ lastEvent' = "tick"
    /\ UNCHANGED <<auto_connect, server_url, mounted, isConnecting,
                   retryInterval, timers, hasCleanup, scheduled_warmup,
                   lastCall, engine, probe, card>>

\* history value of a resolved status query: which kind of status it saw
StatusEvent(s) ==
    IF s \in {"Connected", "Connecting"} THEN "statusUp" ELSE "statusDown"

\* tokenpool_status resolves with status s
StatusReturn(c, s) ==
    /\ c \in PcCalls("status")
    /\ IF NeedsConnect(s)
       THEN /\ isConnecting' = TRUE
            /\ calls' = AddCall(DropCall(calls, c),
                                [pc |-> "connect", url |-> c.url])
       ELSE /\ isConnecting' = isConnecting
            /\ calls' = DropCall(calls, c)
    /\ lastEvent' = StatusEvent(s)
    /\ checkRan' = "none"
    /\ UNCHANGED <<auto_connect, server_url, mounted, retryInterval, timers,
                   hasCleanup, scheduled_warmup, lastCall, engine, probe,
                   card>>

\* StatusFail handled like a failed connect: the flag is reset
StatusFailResetsFlag(c) ==
    /\ c \in PcCalls("status")
    /\ calls' = DropCall(calls, c)
    /\ isConnecting' = FALSE
    /\ lastEvent' = "statusFailed"
    /\ checkRan' = "none"
    /\ UNCHANGED <<auto_connect, server_url, mounted,
                   retryInterval, timers, hasCleanup, scheduled_warmup,
                   lastCall, engine, probe, card>>

\* tokenpool_status rejects: the outer catch logs, the invocation ends
StatusFail(c) ==
    /\ c \in PcCalls("status")
    /\ calls' = DropCall(calls, c)
    /\ lastEvent' = "statusFailed"
    /\ checkRan' = "none"
    /\ UNCHANGED <<auto_connect, server_url, mounted, isConnecting,
                   retryInterval, timers, hasCleanup, scheduled_warmup,
                   lastCall, engine, probe, card>>

\* ConnectReturn with the flag cleared after the await inside try instead of
\* in finally: a rejected call leaves it set
ConnectReturnClearsInTry(c, ok) ==
    /\ c \in PcCalls("connect")
    /\ calls' = DropCall(calls, c)
    /\ isConnecting' = IF ok THEN FALSE ELSE isConnecting
    /\ lastEvent' = IF ok THEN "connected" ELSE "connectFailed"
    /\ checkRan' = "none"
    /\ UNCHANGED <<auto_connect, server_url, mounted, retryInterval, timers,
                   hasCleanup, scheduled_warmup, lastCall, engine, probe,
                   card>>

\* tokenpool_connect resolves (ok) or rejects (~ok): finally clears the flag
ConnectReturn(c, ok) ==
    /\ c \in PcCalls("connect")
    /\ calls' = DropCall(calls, c)
    /\ isConnecting' = FALSE
    /\ lastEvent' = IF ok THEN "connected" ELSE "connectFailed"
    /\ checkRan' = "none"
    /\ UNCHANGED <<auto_connect, server_url, mounted, retryInterval, timers,
                   hasCleanup, scheduled_warmup, lastCall, engine, probe,
                   card>>

\* Unmount with a cleanup that also cancels the pending tokenpool_connect
\* calls, whose finally blocks then never run
UnmountAbortsConnect ==
    /\ mounted
    /\ mounted' = FALSE
    /\ LET cl == EffectCleanup(hasCleanup, retryInterval, timers) IN
       /\ retryInterval' = cl.retryInterval
       /\ timers' = cl.timers
    /\ hasCleanup' = FALSE
    /\ calls' = [c \in PcCalls("status") |-> calls[c]]
    /\ lastEvent' = "unmount"
    /\ checkRan' = "none"
    /\ UNCHANGED <<auto_connect, server_url, isConnecting,
                   scheduled_warmup, lastCall, engine, probe, card>>

\* the owning component unmounts: React runs the effect's cleanup
Unmount ==
    /\ mounted
    /\ mounted' = FALSE
    /\ LET cl == EffectCleanup(hasCleanup, retryInterval, timers) IN
       /\ retryInterval' = cl.retryInterval
       /\ timers' = cl.timers
    /\ hasCleanup' = FALSE
    /\ lastEvent' = "unmount"
    /\ checkRan' = "none"
    /\ UNCHANGED <<auto_connect, server_url, isConnecting, calls,
                   scheduled_warmup, lastCall, engine, probe, card>>

(***************************************************************************)
(* Time strings and the interval check of updateTimePoint                  *)
(***************************************************************************)
Time(h, m) == <<h, m>>
EmptyStr == <<>>

\* the value of an arithmetic expression with an undefined operand
NaN == -1

\* s.split(':').map(Number): "HH:MM" gives [h, m], '' gives [0]
SplitNumbers(s) == IF s = EmptyStr THEN <<0>> ELSE s

\* const [h, m] = ...; h * 60 + m  (m undefined gives NaN)
Minutes(s) ==
    LET p == SplitNumbers(s) IN
    IF Len(p) < 2 THEN NaN ELSE p[1] * 60 + p[2]

Abs(x) == IF x < 0 THEN -x ELSE x

\* diff without the wrap over midnight
diffNoWrap(newMinutes, otherMinutes) ==
    IF newMinutes = NaN \/ otherMinutes = NaN THEN NaN
    ELSE Abs(newMinutes - otherMinutes)

\* let diff = Math.abs(newMinutes - otherMinutes);
\* if (diff > 720) diff = 1440 - diff;
diff(newMinutes, otherMinutes) ==
    IF newMinutes = NaN \/ otherMinutes = NaN THEN NaN
    ELSE LET d == Abs(newMinutes - otherMinutes) IN
         IF d > 720 THEN 1440 - d ELSE d

minInterval == 5 * 60

\* diff < minInterval (a comparison with NaN is false)
TooClose(d) == d # NaN /\ d < minInterval

(***************************************************************************)
(* The trigger time shown next to a peak time                              *)
(***************************************************************************)
\* the text "NaN:NaN"
NaNTime == <<NaN, NaN>>

\* the text '--:--'
NoTimeText == <<"--", "--">>

\* calculateWarmupTime with the wrap test off by one (> 300 for >= 300)
calculateWarmupTimeOffByOne(peakTime) ==
    LET peakMinutes == Minutes(peakTime) IN
    IF peakMinutes = NaN THEN NaNTime
    ELSE LET warmupMinutes == IF peakMinutes > 300
                              THEN peakMinutes - 300
                              ELSE 1440 + peakMinutes - 300
         IN  Time(warmupMinutes \div 60, warmupMinutes % 60)

\* SmartWarmup.tsx: the minutes of the peak time less 300, wrapped, and
\* formatted as HH:MM
calculateWarmupTime(peakTime) ==
    LET peakMinutes == Minutes(peakTime) IN
    IF peakMinutes = NaN THEN NaNTime
    ELSE LET warmupMinutes == IF peakMinutes >= 300
                              THEN peakMinutes - 300
                              ELSE 1440 + peakMinutes - 300
         IN  Time(warmupMinutes \div 60, warmupMinutes % 60)

\* Settings.tsx: the hour of the peak time less 5, wrapped, with the
\* minutes of the peak time
getWarmupTime(peakTime) ==
    IF peakTime = EmptyStr THEN NoTimeText
    ELSE LET p == SplitNumbers(peakTime)
             warmupHour == IF p[1] - 5 < 0 THEN p[1] - 5 + 24 ELSE p[1] - 5
         IN  Time(warmupHour, p[2])

(***************************************************************************)
(* The warmup configuration                                                *)
(***************************************************************************)
Undefined(empty) == [def |-> FALSE, val |-> empty]
Defined(v) == [def |-> TRUE, val |-> v]

TimeRange(s, on) == [start |-> s, end |-> s, enabled |-> on]

\* the default schedule of Settings.tsx
defaultSchedules ==
    << TimeRange(Time(10, 0), TRUE),
       TimeRange(Time(15, 0), TRUE),
       TimeRange(Time(21, 0), TRUE) >>

\* the default peak hours of SmartWarmup.tsx
defaultPeakHours == << Time(10, 0), Time(15, 0), Time(20, 0) >>

\* warmupModelsOptions.map(o => o.id)
warmupModelsOptions ==
    << "gemini-3-flash", "gemini-3-pro-high", "claude-sonnet-4-5",
       "gemini-3-pro-image" >>

Range(seq) == {seq[i] : i \in 1..Len(seq)}

\* the slots rendered by [0, 1, 2].map((idx) => ...)
Slots == 1..3

\* time strings typed into a schedule time input
TimeChoices ==
    << Time(13, 0), EmptyStr, Time(2, 0), Time(1, 59), Time(20, 0),
       Time(16, 0) >>
TimeInputs ==
    {TimeChoices[i] : i \in 1..(IF NumTimeChoices < Len(TimeChoices)
                                THEN NumTimeChoices ELSE Len(TimeChoices))}

\* time strings typed into a peak hour input
PeakChoices == << Time(2, 0), Time(23, 50), Time(12, 0) >>
PeakInputs ==
    {PeakChoices[i] : i \in 1..(IF NumPeakChoices < Len(PeakChoices)
                                THEN NumPeakChoices ELSE Len(PeakChoices))}

Call(op, idx, on, result) ==
    [op |-> op, idx |-> idx, on |-> on, result |-> result]

\* the formData of useState in Settings.tsx: no peak_hours, warmup_mode or
\* monitored_models
SwInit ==
    /\ scheduled_warmup =
          [enabled |-> FALSE,
           schedules |-> defaultSchedules,
           peak_hours |-> Undefined(<<>>),
           warmup_mode |-> "undefined",
           monitored_models |-> Undefined(<<>>)]
    /\ lastCall = Call("none", 0, FALSE, "none")

\* ---- Settings.tsx

\* existingSchedules['default'].length > 0 && ...some(s => s.start)
hasExistingSchedules(times) ==
    Len(times) > 0 /\ \E i \in 1..Len(times) : times[i].start # EmptyStr

\* onChange of the scheduled_warmup enable checkbox
ScheduleEnable(sw, checked) ==
    [sw EXCEPT !.enabled = checked,
               !.schedules = IF hasExistingSchedules(sw.schedules)
                             THEN sw.schedules ELSE defaultSchedules]

\* currentTimeRange?.enabled !== false
isTimeEnabled(sw, idx) == sw.schedules[idx].enabled # FALSE

\* IntervalError without the test that skips disabled windows
IntervalErrorCountsDisabled(newTimes, idx, newTimeStr) ==
    \E i \in 1..Len(newTimes) :
        /\ i # idx
        /\ newTimes[i].start # EmptyStr
        /\ TooClose(diff(Minutes(newTimeStr), Minutes(newTimes[i].start)))

\* the interval loop of updateTimePoint: some other enabled window with a
\* set time is less than minInterval away from the new time
IntervalError(newTimes, idx, newTimeStr) ==
    \E i \in 1..Len(newTimes) :
        /\ i # idx
        /\ ~(newTimes[i].start = EmptyStr \/ newTimes[i].enabled = FALSE)
        /\ TooClose(diff(Minutes(newTimeStr), Minutes(newTimes[i].start)))

\* updateTimePoint writing the slot before the interval check, so that a
\* rejection still stores the new time
updateTimePointStoresOnReject(sw, idx, hasStart, start, hasEnabled, enabled) ==
    LET newTimes == sw.schedules
        entry == [start |-> IF hasStart THEN start ELSE newTimes[idx].start,
                  end |-> IF hasStart THEN start ELSE newTimes[idx].end,
                  enabled |-> IF hasEnabled THEN enabled
                              ELSE newTimes[idx].enabled]
    IN  [rejected |-> hasStart /\ IntervalError(newTimes, idx, start),
         scheduled_warmup |->
             [enabled |-> TRUE,
              schedules |-> [newTimes EXCEPT ![idx] = entry],
              peak_hours |-> Undefined(<<>>),
              warmup_mode |-> "undefined",
              monitored_models |-> Undefined(<<>>)]]

\* updateTimePoint(updates) of slot idx; updates.start and updates.enabled
\* are present when hasStart and hasEnabled say so
updateTimePoint(sw, idx, hasStart, start, hasEnabled, enabled) ==
    LET newTimes == sw.schedules
        entry == [start |-> IF hasStart THEN start ELSE newTimes[idx].start,
                  end |-> IF hasStart THEN start ELSE newTimes[idx].end,
                  enabled |-> IF hasEnabled THEN enabled
                              ELSE newTimes[idx].enabled]
    IN  IF hasStart /\ IntervalError(newTimes, idx, start)
        THEN [rejected |-> TRUE, scheduled_warmup |-> sw]
        ELSE [rejected |-> FALSE,
              scheduled_warmup |->
                  [enabled |-> TRUE,
                   schedules |-> [newTimes EXCEPT ![idx] = entry],
                   peak_hours |-> Undefined(<<>>),
                   warmup_mode |-> "undefined",
                   monitored_models |-> Undefined(<<>>)]]

\* the enable checkbox of the scheduled_warmup section is clicked
ScheduleEnableChange ==
    LET checked == ~scheduled_warmup.enabled IN
    /\ scheduled_warmup' = ScheduleEnable(scheduled_warmup, checked)
    /\ lastCall' = Call("scheduleEnable", 0, checked, "applied")
    /\ UNCHANGED <<wdVars, engine, probe, card>>

\* a time is typed into the time input of slot idx (shown while the
\* section is enabled, not disabled while the slot is enabled)
UpdateTimePointStart(idx, s) ==
    /\ scheduled_warmup.enabled
    /\ isTimeEnabled(scheduled_warmup, idx)
    /\ LET r == updateTimePoint(scheduled_warmup, idx, TRUE, s, FALSE, FALSE)
       IN  /\ scheduled_warmup' = r.scheduled_warmup
           /\ lastCall' = Call("updateTimePoint.start", idx, FALSE,
                               IF r.rejected THEN "rejected" ELSE "applied")
    /\ UNCHANGED <<wdVars, engine, probe, card>>

\* the checkbox of slot idx is clicked
UpdateTimePointEnabled(idx) ==
    /\ scheduled_warmup.enabled
    /\ LET checked == ~isTimeEnabled(scheduled_warmup, idx)
           r == updateTimePoint(scheduled_warmup, idx, FALSE, EmptyStr,
                                TRUE, checked)
       IN  /\ scheduled_warmup' = r.scheduled_warmup
           /\ lastCall' = Call("updateTimePoint.enabled", idx, checked,
                               IF r.rejected THEN "rejected" ELSE "applied")
    /\ UNCHANGED <<wdVars, engine, probe, card>>

\* ---- SmartWarmup.tsx (config is scheduled_warmup, onChange stores it)

\* !config.monitored_models || config.monitored_models.length === 0
IsEmptyList(opt) == ~opt.def \/ Len(opt.val) = 0

\* config.peak_hours || ['10:00', '15:00', '20:00']
peakHours(config) ==
    IF config.peak_hours.def THEN config.peak_hours.val ELSE defaultPeakHours

\* config.warmup_mode || 'peak_based'
warmupMode(config) ==
    IF config.warmup_mode = "undefined" THEN "peak_based"
    ELSE config.warmup_mode

\* handleEnabledChange flipping the stored flag instead of storing its
\* argument
handleEnabledChangeFlips(config, enabled) ==
    LET c1 == [config EXCEPT !.enabled = ~config.enabled]
        c2 == IF enabled /\ IsEmptyList(config.monitored_models)
              THEN [c1 EXCEPT !.monitored_models =
                                  Defined(warmupModelsOptions)]
              ELSE c1
        c3 == IF IsEmptyList(c2.peak_hours)
              THEN [c2 EXCEPT !.peak_hours = Defined(defaultPeakHours)]
              ELSE c2
    IN  IF c3.warmup_mode = "undefined"
        THEN [c3 EXCEPT !.warmup_mode = "peak_based"]
        ELSE c3

handleEnabledChange(config, enabled) ==
    LET c1 == [config EXCEPT !.enabled = enabled]
        c2 == IF enabled /\ IsEmptyList(config.monitored_models)
              THEN [c1 EXCEPT !.monitored_models =
                                  Defined(warmupModelsOptions)]
              ELSE c1
        c3 == IF IsEmptyList(c2.peak_hours)
              THEN [c2 EXCEPT !.peak_hours = Defined(defaultPeakHours)]
              ELSE c2
    IN  IF c3.warmup_mode = "undefined"
        THEN [c3 EXCEPT !.warmup_mode = "peak_based"]
        ELSE c3

\* currentModels.filter(m => m !== model)
FilterOut(seq, model) == SelectSeq(seq, LAMBDA m : m # model)

toggleModel(config, model) ==
    LET currentModels == IF config.monitored_models.def
                         THEN config.monitored_models.val ELSE <<>>
    IN  IF model \in Range(currentModels)
        THEN IF Len(currentModels) <= 1
             THEN [noop |-> TRUE, config |-> config]
             ELSE [noop |-> FALSE,
                   config |-> [config EXCEPT !.monitored_models =
                                  Defined(FilterOut(currentModels, model))]]
        ELSE [noop |-> FALSE,
              config |-> [config EXCEPT !.monitored_models =
                             Defined(Append(currentModels, model))]]

\* handleModeChange building a fresh config instead of spreading the old
handleModeChangeNoSpread(config, mode) ==
    [enabled |-> config.enabled,
     schedules |-> config.schedules,
     peak_hours |-> Undefined(<<>>),
     warmup_mode |-> mode,
     monitored_models |-> Undefined(<<>>)]

handleModeChange(config, mode) == [config EXCEPT !.warmup_mode = mode]

handlePeakHourChange(config, index, value) ==
    [config EXCEPT !.peak_hours =
                       Defined([peakHours(config) EXCEPT ![index] = value])]

\* addPeakHour with the bound test off by one (> 6 for >= 6)
addPeakHourOffByOne(config) ==
    IF Len(peakHours(config)) > 6
    THEN [noop |-> TRUE, config |-> config]
    ELSE [noop |-> FALSE,
          config |-> [config EXCEPT !.peak_hours =
                         Defined(Append(peakHours(config), Time(12, 0)))]]

addPeakHour(config) ==
    IF Len(peakHours(config)) >= 6
    THEN [noop |-> TRUE, config |-> config]
    ELSE [noop |-> FALSE,
          config |-> [config EXCEPT !.peak_hours =
                         Defined(Append(peakHours(config), Time(12, 0)))]]

\* peakHours.filter((_, i) => i !== index)
RemoveAt(seq, index) ==
    [i \in 1..(Len(seq) - 1) |-> IF i < index THEN seq[i] ELSE seq[i + 1]]

removePeakHour(config, index) ==
    IF Len(peakHours(config)) <= 1
    THEN [noop |-> TRUE, config |-> config]
    ELSE [noop |-> FALSE,
          config |-> [config EXCEPT !.peak_hours =
                         Defined(RemoveAt(peakHours(config), index))]]

\* the enable switch of SmartWarmup is clicked
HandleEnabledChange ==
    LET checked == ~scheduled_warmup.enabled IN
    /\ scheduled_warmup' = handleEnabledChange(scheduled_warmup, checked)
    /\ lastCall' = Call("handleEnabledChange", 0, checked, "applied")
    /\ UNCHANGED <<wdVars, engine, probe, card>>

\* a model tile is clicked (rendered while config.enabled)
ToggleModel(k) ==
    /\ scheduled_warmup.enabled
    /\ LET r == toggleModel(scheduled_warmup, warmupModelsOptions[k]) IN
       /\ scheduled_warmup' = r.config
       /\ lastCall' = Call("toggleModel", k, FALSE,
                           IF r.noop THEN "noop" ELSE "applied")
    /\ UNCHANGED <<wdVars, engine, probe, card>>

\* a mode tile is clicked (rendered while config.enabled)
HandleModeChange(mode) ==
    /\ scheduled_warmup.enabled
    /\ scheduled_warmup' = handleModeChange(scheduled_warmup, mode)
    /\ lastCall' = Call("handleModeChange", 0, mode = "immediate", "applied")
    /\ UNCHANGED <<wdVars, engine, probe, card>>

\* the peak hour inputs are rendered while enabled in peak_based mode
PeakHoursShown ==
    scheduled_warmup.enabled /\ warmupMode(scheduled_warmup) = "peak_based"

HandlePeakHourChange(index, value) ==
    /\ PeakHoursShown
    /\ index \in 1..Len(peakHours(scheduled_warmup))
    /\ scheduled_warmup' = handlePeakHourChange(scheduled_warmup, index, value)
    /\ lastCall' = Call("handlePeakHourChange", index, FALSE, "applied")
    /\ UNCHANGED <<wdVars, engine, probe, card>>

AddPeakHour ==
    /\ PeakHoursShown
    /\ LET r == addPeakHour(scheduled_warmup) IN
       /\ scheduled_warmup' = r.config
       /\ lastCall' = Call("addPeakHour", 0, FALSE,
                           IF r.noop THEN "noop" ELSE "applied")
    /\ UNCHANGED <<wdVars, engine, probe, card>>

RemovePeakHour(index) ==
    /\ PeakHoursShown
    /\ index \in 1..Len(peakHours(scheduled_warmup))
    /\ LET r == removePeakHour(scheduled_warmup, index) IN
       /\ scheduled_warmup' = r.config
       /\ lastCall' = Call("removePeakHour", index, FALSE,
                           IF r.noop THEN "noop" ELSE "applied")
    /\ UNCHANGED <<wdVars, engine, probe, card>>

(***************************************************************************)
(* The warmup scheduler that consumes scheduled_warmup.  It runs outside   *)
(* the settings pages; it is modelled from its specification: one          *)
(* Fired-today flag per window, a periodic check, a midnight rollover, and *)
(* one previous observation and one pending flag per model.                *)
(***************************************************************************)
offset_minutes == 300

\* trigger_time = (peak_time - offset_minutes) mod 1440
trigger_time(peak_time) == (peak_time - offset_minutes) % 1440

\* quota percentages reported by an observation
Quotas == {0, 50, 100}

\* no observation of the model yet
NoQuota == -1

Models == Range(warmupModelsOptions)

\* minutes between two looks at the clock
ClockSteps == {60, 185}

EngineLast(kind, model, quota) ==
    [kind |-> kind, model |-> model, quota |-> quota]

EngineStart ==
    [now |-> 0,
     fired |-> [i \in Slots |-> FALSE],
     fires |-> [i \in Slots |-> 0],
     firedNow |-> {},
     prev |-> [m \in Models |-> NoQuota],
     pending |-> [m \in Models |-> FALSE],
     warmedNow |-> {},
     last |-> EngineLast("start", "", 0)]

monitored(config) ==
    IF config.monitored_models.def THEN Range(config.monitored_models.val)
    ELSE {}

\* window i has reached its trigger time today
Due(config, eng, i) ==
    /\ i \in 1..Len(config.schedules)
    /\ config.schedules[i].enabled
    /\ config.schedules[i].start # EmptyStr
    /\ eng.now >= trigger_time(Minutes(config.schedules[i].start))

PeakActive(config) == config.enabled /\ warmupMode(config) = "peak_based"

ImmediateActive(config) == config.enabled /\ warmupMode(config) = "immediate"

\* ShouldFire without the Fired-today test
ShouldFireEveryCheck(config, eng, i) ==
    PeakActive(config) /\ Due(config, eng, i)

\* the periodic check fires window i: peak based mode, Armed (due and not
\* yet fired today)
ShouldFire(config, eng, i) ==
    PeakActive(config) /\ Due(config, eng, i) /\ ~eng.fired[i]

\* ShouldWarm without the comparison with the previous observation
ShouldWarmNoEdge(config, eng, m, q) ==
    /\ ImmediateActive(config)
    /\ m \in monitored(config)
    /\ q = 100
    /\ ~eng.pending[m]

\* an observation of quota q for model m fires a warmup: immediate mode,
\* monitored model, the quota reaches 100 and no warmup is pending
ShouldWarm(config, eng, m, q) ==
    /\ ImmediateActive(config)
    /\ m \in monitored(config)
    /\ q = 100
    /\ eng.prev[m] # 100
    /\ ~eng.pending[m]

\* the clock is read again later the same day
ClockAdvance(dt) ==
    /\ engine.now + dt < 1440
    /\ engine' = [engine EXCEPT !.now = engine.now + dt,
                                !.firedNow = {}, !.warmedNow = {},
                                !.last = EngineLast("clock", "", 0)]
    /\ UNCHANGED <<wdVars, swVars, probe, card>>

\* local midnight passes: every window is re-armed
MidnightRollover(dt) ==
    /\ engine.now + dt >= 1440
    /\ engine' = [engine EXCEPT !.now = engine.now + dt - 1440,
                                !.fired = [i \in Slots |-> FALSE],
                                !.fires = [i \in Slots |-> 0],
                                !.firedNow = {}, !.warmedNow = {},
                                !.last = EngineLast("rollover", "", 0)]
    /\ UNCHANGED <<wdVars, swVars, probe, card>>

\* the periodic check of the scheduler
PeriodicCheck ==
    LET firing == {i \in Slots : ShouldFire(scheduled_warmup, engine, i)} IN
    /\ engine' = [engine EXCEPT
                     !.fired = [i \in Slots |->
                                  engine.fired[i] \/ i \in firing],
                     !.fires = [i \in Slots |->
                                  IF i \in firing /\ engine.fires[i] < 2
                                  THEN engine.fires[i] + 1
                                  ELSE engine.fires[i]],
                     !.firedNow = firing, !.warmedNow = {},
                     !.last = EngineLast("check", "", 0)]
    /\ UNCHANGED <<wdVars, swVars, probe, card>>

\* the quota of model m is observed at q
Observe(m, q) ==
    LET warm == ShouldWarm(scheduled_warmup, engine, m, q) IN
    /\ engine' = [engine EXCEPT
                     !.prev[m] = q,
                     !.pending[m] = engine.pending[m] \/ warm,
                     !.firedNow = {},
                     !.warmedNow = IF warm THEN {m} ELSE {},
                     !.last = EngineLast("observe", m, q)]
    /\ UNCHANGED <<wdVars, swVars, probe, card>>

\* fire_warmup for model m returns
WarmupDone(m) ==
    /\ engine.pending[m]
    /\ engine' = [engine EXCEPT !.pending[m] = FALSE,
                                !.firedNow = {}, !.warmedNow = {},
                                !.last = EngineLast("done", m, 0)]
    /\ UNCHANGED <<wdVars, swVars, probe, card>>

\* an enabled configuration for the scheduler: a window whose trigger time
\* wraps to the previous day, a disabled window, two monitored models
EngineConfig(mode) ==
    [enabled |-> TRUE,
     schedules |-> << TimeRange(Time(10, 0), TRUE),
                      TimeRange(Time(15, 0), FALSE),
                      TimeRange(Time(2, 0), TRUE) >>,
     peak_hours |-> Defined(defaultPeakHours),
     warmup_mode |-> mode,
     monitored_models |-> Defined(<< "gemini-3-flash", "claude-sonnet-4-5" >>)]

(***************************************************************************)
(* TokenPoolCard: the status poll and the manual connect / disconnect       *)
(* button                                                                  *)
(***************************************************************************)
\* useState<TokenPoolStatus> and useState(false) for loading; pc is the
\* await handleToggle is suspended at, url the server_url argument of its
\* tokenpool_connect; last and shown are history: the command handleToggle
\* invoked in the step just taken and the label the button had then
CardStart ==
    [status |-> "Disconnected", enabled |-> FALSE, loading |-> FALSE,
     pc |-> "idle", url |-> "", last |-> "none", shown |-> "none"]

\* const isConnected = status.status === 'Connected'
isConnected(c) == c.status = "Connected"

\* the text of the connect / disconnect button
ButtonLabel(c) ==
    IF c.loading THEN "Loading..."
    ELSE IF isConnected(c) THEN "Disconnect" ELSE "Connect"

\* handleToggle up to its first await: the command is chosen by
\* status.enabled
handleToggle(c, url) ==
    [c EXCEPT !.loading = TRUE,
              !.pc = IF c.enabled THEN "disconnect" ELSE "connect",
              !.url = IF c.enabled THEN "" ELSE serverUrl(url),
              !.last = IF c.enabled THEN "disconnect" ELSE "connect",
              !.shown = ButtonLabel(c)]

\* number of tokenpool_connect calls of handleToggle awaiting their result
ManualConnectsInFlight == IF card.pc = "connect" THEN 1 ELSE 0

\* the loadStatus of the mount or of the 5 s interval resolves with the
\* pool status (s, en); a rejected query leaves the state as it is
LoadStatus(s, en) ==
    /\ card' = [card EXCEPT !.status = s, !.enabled = en,
                            !.last = "none", !.shown = "none"]
    /\ UNCHANGED <<wdVars, swVars, engine, probe>>

\* the button is clicked (it is disabled while loading)
HandleToggle ==
    /\ ~card.loading
    /\ card' = handleToggle(card, server_url)
    /\ UNCHANGED <<wdVars, swVars, engine, probe>>

\* the command of handleToggle resolves (ok): loadStatus is awaited next;
\* or rejects: catch shows the error, finally resets loading
ToggleReturn(ok) ==
    /\ card.pc \in {"connect", "disconnect"}
    /\ card' = [card EXCEPT !.pc = IF ok THEN "reload" ELSE "idle",
                            !.loading = ~ok,
                            !.url = "",
                            !.last = "none", !.shown = "none"]
    /\ UNCHANGED <<wdVars, swVars, engine, probe>>

\* the loadStatus awaited by handleToggle returns: the status is stored when
\* the query resolved (ok), then finally resets loading
ToggleReload(s, en, ok) ==
    /\ card.pc = "reload"
    /\ card' = [card EXCEPT !.status = IF ok THEN s ELSE card.status,
                            !.enabled = IF ok THEN en ELSE card.enabled,
                            !.pc = "idle", !.loading = FALSE,
                            !.last = "none", !.shown = "none"]
    /\ UNCHANGED <<wdVars, swVars, engine, probe>>

(***************************************************************************)
(* Specifications                                                          *)
(***************************************************************************)
NoProbe == [fn |-> "none"]

Init ==
    WdInit /\ SwInit /\ engine = EngineStart /\ probe = NoProbe
        /\ card = CardStart

InitEngine ==
    /\ WdInit
    /\ \E mode \in {"immediate", "peak_based"} :
          scheduled_warmup = EngineConfig(mode)
    /\ lastCall = Call("none", 0, FALSE, "none")
    /\ engine = EngineStart
    /\ probe = NoProbe
    /\ card = CardStart

\* the minutes of the time strings drawn as inputs
ProbeMarks == {0, 1, 10, 30, 50, 59}
ProbeTimes == {Time(h, m) : h \in 0..23, m \in ProbeMarks}

ProbeFrame == WdInit /\ SwInit /\ engine = EngineStart /\ card = CardStart

\* the interval of updateTimePoint applied to two drawn times
InitDistance ==
    /\ ProbeFrame
    /\ \E a \in ProbeTimes, b \in ProbeTimes :
          probe = [fn |-> "diff", a |-> a, b |-> b, done |-> FALSE,
                   out |-> 0, rev |-> 0]

ApplyDiff ==
    /\ probe.fn = "diff" /\ ~probe.done
    /\ probe' = [probe EXCEPT
                    !.done = TRUE,
                    !.out = diff(Minutes(probe.a), Minutes(probe.b)),
                    !.rev = diff(Minutes(probe.b), Minutes(probe.a))]
    /\ UNCHANGED <<wdVars, swVars, engine, card>>

NextDistance == ApplyDiff

SpecDistance == InitDistance /\ [][NextDistance]_vars

\* the two trigger time functions applied to a drawn peak time
PeakTimes == {Time(h, m) : h \in 0..23, m \in 0..59}

InitTrigger ==
    /\ ProbeFrame
    /\ \E p \in PeakTimes :
          probe = [fn |-> "warmupTime", peak |-> p,
                   calcDone |-> FALSE, calc |-> EmptyStr,
                   getDone |-> FALSE, get |-> EmptyStr]

ApplyCalculateWarmupTime ==
    /\ probe.fn = "warmupTime" /\ ~probe.calcDone
    /\ probe' = [probe EXCEPT !.calcDone = TRUE,
                              !.calc = calculateWarmupTime(probe.peak)]
    /\ UNCHANGED <<wdVars, swVars, engine, card>>

ApplyGetWarmupTime ==
    /\ probe.fn = "warmupTime" /\ ~probe.getDone
    /\ probe' = [probe EXCEPT !.getDone = TRUE,
                              !.get = getWarmupTime(probe.peak)]
    /\ UNCHANGED <<wdVars, swVars, engine, card>>

NextTrigger == ApplyCalculateWarmupTime \/ ApplyGetWarmupTime

SpecTrigger == InitTrigger /\ [][NextTrigger]_vars

\* the interval loop applied to drawn windows, slot and new time
WindowTimes == {Time(10, 0), Time(15, 0), Time(21, 0), EmptyStr}

CandidateTimes ==
    {Time(10, 0), Time(15, 0), Time(14, 59), Time(5, 0), Time(5, 1),
     Time(2, 0), Time(1, 59), Time(20, 0), EmptyStr}

InitValidate ==
    /\ ProbeFrame
    /\ \E w1 \in WindowTimes, w2 \in WindowTimes, w3 \in WindowTimes,
          e1 \in BOOLEAN, e2 \in BOOLEAN, e3 \in BOOLEAN,
          idx \in Slots, start \in CandidateTimes :
          probe = [fn |-> "validate",
                   newTimes |-> << TimeRange(w1, e1), TimeRange(w2, e2),
                                   TimeRange(w3, e3) >>,
                   idx |-> idx, start |-> start,
                   done |-> FALSE, rejected |-> FALSE]

ApplyIntervalError ==
    /\ probe.fn = "validate" /\ ~probe.done
    /\ probe' = [probe EXCEPT
                    !.done = TRUE,
                    !.rejected = IntervalError(probe.newTimes, probe.idx,
                                               probe.start)]
    /\ UNCHANGED <<wdVars, swVars, engine, card>>

NextValidate == ApplyIntervalError

SpecValidate == InitValidate /\ [][NextValidate]_vars

\* set_enabled(true) applied once and again to a drawn configuration
ProbeSchedules ==
    { defaultSchedules,
      <<>>,
      << TimeRange(EmptyStr, TRUE), TimeRange(EmptyStr, TRUE),
         TimeRange(EmptyStr, FALSE) >>,
      << TimeRange(EmptyStr, TRUE), TimeRange(Time(13, 0), FALSE),
         TimeRange(Time(21, 0), TRUE) >> }

ProbeConfigs ==
    [enabled : BOOLEAN,
     schedules : ProbeSchedules,
     peak_hours : {Undefined(<<>>), Defined(<<>>),
                   Defined(<< Time(12, 0) >>)},
     warmup_mode : {"undefined", "immediate", "peak_based"},
     monitored_models : {Undefined(<<>>), Defined(<<>>),
                         Defined(<< "claude-sonnet-4-5" >>)}]

\* the two implementations of set_enabled(true)
SetEnabled(impl, config) ==
    IF impl = "scheduleEnable" THEN ScheduleEnable(config, TRUE)
    ELSE handleEnabledChange(config, TRUE)

InitSetEnabled ==
    /\ ProbeFrame
    /\ \E impl \in {"scheduleEnable", "handleEnabledChange"},
          config \in ProbeConfigs :
          probe = [fn |-> "setEnabled", impl |-> impl, config |-> config,
                   n |-> 0, once |-> config, twice |-> config]

ApplySetEnabledOnce ==
    /\ probe.fn = "setEnabled" /\ probe.n = 0
    /\ probe' = [probe EXCEPT
                    !.n = 1,
                    !.once = SetEnabled(probe.impl, probe.config)]
    /\ UNCHANGED <<wdVars, swVars, engine, card>>

ApplySetEnabledAgain ==
    /\ probe.fn = "setEnabled" /\ probe.n = 1
    /\ probe' = [probe EXCEPT
                    !.n = 2,
                    !.twice = SetEnabled(probe.impl, probe.once)]
    /\ UNCHANGED <<wdVars, swVars, engine, card>>

NextSetEnabled == ApplySetEnabledOnce \/ ApplySetEnabledAgain

SpecSetEnabled == InitSetEnabled /\ [][NextSetEnabled]_vars

\* the scheduler in peak based mode: clock, periodic check, rollover
NextPeakEngine ==
    \/ \E dt \in ClockSteps : ClockAdvance(dt)
    \/ \E dt \in ClockSteps : MidnightRollover(dt)
    \/ PeriodicCheck

SpecPeakEngine == InitEngine /\ [][NextPeakEngine]_vars

\* the scheduler in immediate mode: observations and warmup completions
NextImmediateEngine ==
    \/ \E m \in Models, q \in Quotas : Observe(m, q)
    \/ \E m \in Models : WarmupDone(m)

SpecImmediateEngine == InitEngine /\ [][NextImmediateEngine]_vars

\* the watchdog
Next ==
    \/ \E ac \in BOOLEAN, url \in ServerUrls : ConfigChange(ac, url)
    \/ \E t \in timers : Tick(t)
    \/ \E c \in BagToSet(calls), s \in Statuses : StatusReturn(c, s)
    \/ \E c \in BagToSet(calls) : StatusFail(c)
    \/ \E c \in BagToSet(calls), ok \in BOOLEAN : ConnectReturn(c, ok)
    \/ Unmount

Spec == Init /\ [][Next]_vars

\* the watchdog with every awaited tokenpool_connect call settling in the
\* end (the promise of invoke resolves or rejects)
SpecConnectSettles ==
    /\ Spec
    /\ WF_vars(\E c \in BagToSet(calls), ok \in BOOLEAN : ConnectReturn(c, ok))

\* the watchdog next to the card with the manual button
NextCard ==
    \/ Next
    \/ \E s \in Statuses, en \in BOOLEAN : LoadStatus(s, en)
    \/ HandleToggle
    \/ \E ok \in BOOLEAN : ToggleReturn(ok)
    \/ \E s \in Statuses, en \in BOOLEAN, ok \in BOOLEAN :
          ToggleReload(s, en, ok)

SpecCard == Init /\ [][NextCard]_vars

\* the watchdog with auto_connect staying enabled once it is, a remote whose
\* status is Disconnected or Error whenever a query resolves, the interval
\* firing again and again, and every awaited call settling
NextReconnect ==
    \/ \E url \in ServerUrls : ConfigChange(TRUE, url)
    \/ \E t \in timers : Tick(t)
    \/ \E c \in BagToSet(calls), s \in {x \in Statuses : NeedsConnect(x)} :
          StatusReturn(c, s)
    \/ \E c \in BagToSet(calls) : StatusFail(c)
    \/ \E c \in BagToSet(calls), ok \in BOOLEAN : ConnectReturn(c, ok)

SpecReconnect ==
    /\ Init
    /\ [][NextReconnect]_vars
    /\ WF_vars(\E t \in timers : Tick(t))
    /\ SF_vars(\E c \in BagToSet(calls),
                  s \in {x \in Statuses : NeedsConnect(x)} :
                  StatusReturn(c, s))
    /\ WF_vars(\E c \in BagToSet(calls), ok \in BOOLEAN : ConnectReturn(c, ok))

\* the scheduled_warmup section of Settings.tsx
NextSchedule ==
    \/ ScheduleEnableChange
    \/ \E idx \in Slots, s \in TimeInputs : UpdateTimePointStart(idx, s)
    \/ \E idx \in Slots : UpdateTimePointEnabled(idx)

SpecSchedule == Init /\ [][NextSchedule]_vars

\* the enable switches, the window switches, the models and the mode
NextWarmup ==
    \/ ScheduleEnableChange
    \/ \E idx \in Slots : UpdateTimePointEnabled(idx)
    \/ HandleEnabledChange
    \/ \E k \in 1..Len(warmupModelsOptions) : ToggleModel(k)
    \/ \E mode \in {"immediate", "peak_based"} : HandleModeChange(mode)

SpecWarmup == Init /\ [][NextWarmup]_vars

\* the peak hour list of SmartWarmup.tsx
NextPeakHours ==
    \/ HandleEnabledChange
    \/ \E i \in 1..6, v \in PeakInputs : HandlePeakHourChange(i, v)
    \/ AddPeakHour
    \/ \E i \in 1..6 : RemovePeakHour(i)

SpecPeakHours == Init /\ [][NextPeakHours]_vars

(***************************************************************************)
(* Properties                                                              *)
(***************************************************************************)

\* C1: at most one tokenpool_connect call issued by checkAndConnect is in
\* flight at any time, under every interleaving of ticks, the immediate
\* check, configuration changes and completions.
C1_AtMostOneConnectInFlight == ConnectsInFlight <= 1

\* min(|a - b|, 1440 - |a - b|) on the 1440 minute ring
CircularDistance(a, b) ==
    LET d == Abs(a - b) IN IF d < 1440 - d THEN d ELSE 1440 - d

HasTime(w) == w.start # EmptyStr

\* window i is enabled, has a time, and some other enabled window with a
\* time is less than 300 minutes away from it
Conflicts(times, i) ==
    /\ times[i].enabled /\ HasTime(times[i])
    /\ \E j \in 1..Len(times) :
          /\ j # i /\ times[j].enabled /\ HasTime(times[j])
          /\ CircularDistance(Minutes(times[i].start),
                              Minutes(times[j].start)) < 300

\* C2: after any sequence of accepted window mutations from the default
\* windows, every pair of distinct enabled windows is at least 300 minutes
\* apart (circular distance).
C2_EnabledWindowsSeparated ==
    \A i \in 1..Len(scheduled_warmup.schedules) :
        ~Conflicts(scheduled_warmup.schedules, i)

\* C3: a rejected time update leaves the whole configuration as it was.
C3_RejectionLeavesConfig ==
    [][(lastCall'.op = "updateTimePoint.start"
        /\ lastCall'.result = "rejected")
       => scheduled_warmup' = scheduled_warmup]_vars

C3_Witness ==
    /\ lastCall.op = "updateTimePoint.start"
    /\ lastCall.result = "rejected"
    /\ \E i \in Slots : ~scheduled_warmup.schedules[i].enabled

\* C4: enabling a window whose time is less than 300 minutes from another
\* enabled window is rejected and leaves the state unchanged.
C4_EnableRunsSeparationCheck ==
    [][(/\ lastCall'.op = "updateTimePoint.enabled"
        /\ lastCall'.on
        /\ \E j \in 1..Len(scheduled_warmup.schedules) :
              /\ j # lastCall'.idx
              /\ scheduled_warmup.schedules[j].enabled
              /\ HasTime(scheduled_warmup.schedules[j])
              /\ HasTime(scheduled_warmup.schedules[lastCall'.idx])
              /\ CircularDistance(
                    Minutes(scheduled_warmup.schedules[lastCall'.idx].start),
                    Minutes(scheduled_warmup.schedules[j].start)) < 300)
       => scheduled_warmup' = scheduled_warmup]_vars

\* C5: while auto_connect is disabled, or after the hook is torn down, no
\* timer is active and no invocation of checkAndConnect starts.
C5_NoCheckWhileStopped ==
    (~auto_connect \/ ~mounted)
        => (timers = {} /\ retryInterval = 0 /\ checkRan = "none")

C5_Witness ==
    /\ ~auto_connect
    /\ lastEvent = "effect"
    /\ calls # EmptyBag

\* C6: the effect run that starts the watchdog runs checkAndConnect in the
\* same step: with the flag clear a status query of the configured endpoint
\* is issued at once, next to the new timer.
C6_ImmediateCheckOnStart ==
    (lastEvent = "effect" /\ auto_connect)
        => /\ checkRan \in {"queried", "skipped"}
           /\ checkRan = "skipped" <=> isConnecting
           /\ ~isConnecting =>
                 [pc |-> "status", url |-> serverUrl(server_url)]
                     \in BagToSet(calls)
           /\ retryInterval # 0

C6_Witness ==
    /\ lastEvent = "effect"
    /\ auto_connect
    /\ checkRan = "queried"
    /\ StatusInFlight >= 2

\* C7: whenever warmup is enabled, monitored_models is non-empty.
C7_EnabledHasMonitoredModels ==
    scheduled_warmup.enabled => ~IsEmptyList(scheduled_warmup.monitored_models)

\* C8: the number of peak windows stays within 1..6; addPeakHour at 6
\* entries and removePeakHour at 1 entry leave the configuration as it was.
C8_PeakHoursBounded ==
    [][/\ Len(peakHours(scheduled_warmup')) \in 1..6
       /\ (lastCall'.op = "addPeakHour"
           /\ Len(peakHours(scheduled_warmup)) >= 6)
             => scheduled_warmup' = scheduled_warmup
       /\ (lastCall'.op = "removePeakHour"
           /\ Len(peakHours(scheduled_warmup)) <= 1)
             => scheduled_warmup' = scheduled_warmup]_vars

C8_Witness ==
    /\ lastCall.op = "addPeakHour"
    /\ lastCall.result = "noop"
    /\ Len(peakHours(scheduled_warmup)) = 6

\* C9: disabling the only enabled window of the enabled warmup config is
\* refused: the configuration stays as it was.
C9_LastEnabledWindowKept ==
    [][(/\ lastCall'.op = "updateTimePoint.enabled"
        /\ ~lastCall'.on
        /\ scheduled_warmup.enabled
        /\ \A j \in 1..Len(scheduled_warmup.schedules) :
              scheduled_warmup.schedules[j].enabled <=> j = lastCall'.idx)
       => scheduled_warmup' = scheduled_warmup]_vars

\* C10: set_enabled(true) on a config with empty or absent monitored_models
\* yields the full model catalog, and leaves a non-empty monitored_models
\* unchanged.
C10_EnablePopulatesModels ==
    [][(lastCall'.op \in {"scheduleEnable", "handleEnabledChange"}
        /\ lastCall'.on)
       => scheduled_warmup'.monitored_models =
             IF IsEmptyList(scheduled_warmup.monitored_models)
             THEN Defined(warmupModelsOptions)
             ELSE scheduled_warmup.monitored_models]_vars

\* the three default windows 10:00, 15:00, 21:00
DefaultWindowTimes == << Time(10, 0), Time(15, 0), Time(21, 0) >>

Starts(times) == [i \in 1..Len(times) |-> times[i].start]

SetEnabledTrue(call) ==
    call.op \in {"scheduleEnable", "handleEnabledChange"} /\ call.on

\* C11: set_enabled(true) replaces the windows with the default windows
\* 10:00, 15:00, 21:00 exactly when the window list is empty or has no set
\* time, and keeps the existing windows otherwise; this holds of the
\* schedules and, for the SmartWarmup switch, of its peak hour list.
C11_EnableDefaultsWindows ==
    [][SetEnabledTrue(lastCall')
       => /\ IF \A i \in 1..Len(scheduled_warmup.schedules) :
                    scheduled_warmup.schedules[i].start = EmptyStr
             THEN Starts(scheduled_warmup'.schedules) = DefaultWindowTimes
             ELSE scheduled_warmup'.schedules = scheduled_warmup.schedules
          /\ lastCall'.op = "handleEnabledChange"
                => IF IsEmptyList(scheduled_warmup.peak_hours)
                   THEN scheduled_warmup'.peak_hours =
                            Defined(DefaultWindowTimes)
                   ELSE scheduled_warmup'.peak_hours =
                            scheduled_warmup.peak_hours]_vars

\* C12: the interval computed by updateTimePoint is
\* min(|a - b|, 1440 - |a - b|): symmetric, within 0..720, and 20 minutes
\* between 23:50 and 00:10.
C12_CircularDistance ==
    (probe.fn = "diff" /\ probe.done)
        => /\ probe.out = CircularDistance(Minutes(probe.a), Minutes(probe.b))
           /\ probe.out = probe.rev
           /\ probe.out \in 0..720
           /\ (probe.a = Time(23, 50) /\ probe.b = Time(0, 10))
                 => probe.out = 20

C12_Witness ==
    /\ probe.fn = "diff" /\ probe.done
    /\ probe.a = Time(23, 50) /\ probe.b = Time(0, 10)
    /\ probe.out = 20

\* C13: for every peak time p the trigger time is (p - 300) mod 1440, a
\* time of day (600 gives 05:00, 120 gives 21:00), and calculateWarmupTime
\* and getWarmupTime return the same time.
C13_TriggerTime ==
    (probe.fn = "warmupTime" /\ probe.calcDone /\ probe.getDone)
        => /\ Len(probe.calc) = 2
           /\ probe.calc[1] \in 0..23 /\ probe.calc[2] \in 0..59
           /\ Minutes(probe.calc) = (Minutes(probe.peak) + 1140) % 1440
           /\ probe.get = probe.calc
           /\ probe.peak = Time(10, 0) => probe.calc = Time(5, 0)
           /\ probe.peak = Time(2, 0) => probe.calc = Time(21, 0)

C13_Witness ==
    /\ probe.fn = "warmupTime" /\ probe.calcDone /\ probe.getDone
    /\ probe.peak = Time(2, 0)
    /\ probe.calc = Time(21, 0) /\ probe.get = Time(21, 0)

\* window j of times is enabled, has a time, and lies at a circular
\* distance from the time start that satisfies Test
OtherAt(times, j, start, Test(_)) ==
    /\ times[j].enabled /\ HasTime(times[j]) /\ start # EmptyStr
    /\ Test(CircularDistance(Minutes(start), Minutes(times[j].start)))

\* C14: the interval check rejects exactly when some window other than the
\* candidate's, enabled and with a set time, is strictly less than 300
\* minutes (circular) from the candidate time.
C14_ValidateRejectsIff ==
    (probe.fn = "validate" /\ probe.done)
        => (probe.rejected <=>
               \E j \in 1..Len(probe.newTimes) :
                   /\ j # probe.idx
                   /\ OtherAt(probe.newTimes, j, probe.start,
                              LAMBDA d : d < 300))

\* accepted with an enabled window exactly 300 minutes away, a disabled
\* window closer than 300 and the candidate's own slot closer than 300
C14_Witness ==
    /\ probe.fn = "validate" /\ probe.done /\ ~probe.rejected
    /\ \E j \in 1..Len(probe.newTimes) :
          /\ j # probe.idx
          /\ OtherAt(probe.newTimes, j, probe.start, LAMBDA d : d = 300)
    /\ \E k \in 1..Len(probe.newTimes) :
          /\ k # probe.idx /\ ~probe.newTimes[k].enabled
          /\ HasTime(probe.newTimes[k])
          /\ CircularDistance(Minutes(probe.start),
                              Minutes(probe.newTimes[k].start)) < 300
    /\ OtherAt(probe.newTimes, probe.idx, probe.start, LAMBDA d : d < 300)

\* C15: handleModeChange(mode) changes warmup_mode to mode and nothing
\* else: windows, monitored_models and enabled are as before.
C15_ModeChangeIsPureSwitch ==
    [][lastCall'.op = "handleModeChange"
       => /\ scheduled_warmup'.warmup_mode =
                IF lastCall'.on THEN "immediate" ELSE "peak_based"
          /\ scheduled_warmup' =
                [scheduled_warmup EXCEPT
                    !.warmup_mode = scheduled_warmup'.warmup_mode]]_vars

C15_Witness ==
    /\ lastCall.op = "handleModeChange" /\ lastCall.on
    /\ scheduled_warmup.warmup_mode = "immediate"
    /\ ~IsEmptyList(scheduled_warmup.monitored_models)
    /\ ~IsEmptyList(scheduled_warmup.peak_hours)

\* C16: set_enabled(true) applied twice yields the config that applying
\* it once yields, for both implementations.
C16_SetEnabledIdempotent ==
    (probe.fn = "setEnabled" /\ probe.n = 2) => probe.twice = probe.once

C16_Witness ==
    /\ probe.fn = "setEnabled" /\ probe.n = 2
    /\ probe.impl = "handleEnabledChange"
    /\ ~probe.config.enabled
    /\ IsEmptyList(probe.config.monitored_models)
    /\ probe.once # probe.config
    /\ probe.twice = probe.once

\* C17: in peak based mode an enabled window fires at the first periodic
\* check that finds the clock at or past its trigger time, fires once at
\* most before the midnight rollover, and is armed again by the rollover.
C17_PeakWindowFiresOncePerDay ==
    /\ \A i \in Slots :
          /\ engine.fires[i] <= 1
          /\ engine.fired[i] <=> engine.fires[i] = 1
          /\ engine.fired[i] => Due(scheduled_warmup, engine, i)
    /\ engine.firedNow # {} =>
          /\ engine.last.kind = "check"
          /\ PeakActive(scheduled_warmup)
    /\ (engine.last.kind = "check" /\ PeakActive(scheduled_warmup)) =>
          \A i \in Slots :
             Due(scheduled_warmup, engine, i) => engine.fired[i]
    /\ engine.last.kind = "rollover" =>
          \A i \in Slots : ~engine.fired[i]

C17_Witness ==
    /\ PeakActive(scheduled_warmup)
    /\ engine.last.kind = "check"
    /\ engine.firedNow = {3}
    /\ engine.fired[1] /\ engine.fires[1] = 1
    /\ ~engine.fired[2]

\* C18: in immediate mode the observation at which a monitored model's
\* quota reaches 100 fires a warmup for it; an observation of 100 after an
\* observation of 100, or while a warmup for the model is pending, fires
\* none.
C18_ImmediateFiresOnEdge ==
    [][engine'.last.kind = "observe"
       => LET m == engine'.last.model
              q == engine'.last.quota
          IN  /\ (/\ ImmediateActive(scheduled_warmup)
                  /\ m \in monitored(scheduled_warmup)
                  /\ q = 100 /\ engine.prev[m] # 100
                  /\ ~engine.pending[m]) => m \in engine'.warmedNow
              /\ (q = 100 /\ engine.prev[m] = 100) =>
                     m \notin engine'.warmedNow
              /\ engine.pending[m] => m \notin engine'.warmedNow
              /\ q # 100 => m \notin engine'.warmedNow
              /\ engine'.warmedNow \subseteq {m}]_vars

C18_Witness ==
    /\ ImmediateActive(scheduled_warmup)
    /\ engine.last.kind = "observe"
    /\ engine.last.quota = 100
    /\ engine.last.model \in monitored(scheduled_warmup)
    /\ engine.prev[engine.last.model] = 100
    /\ ~engine.pending[engine.last.model]
    /\ engine.warmedNow = {}

\* C19: a completed tokenpool_connect call of the watchdog leaves the
\* in-flight flag clear, whether it resolved or was rejected.
C19_ConnectCompletionClearsFlag ==
    lastEvent \in {"connected", "connectFailed"} => ~isConnecting

C19_Witness ==
    /\ lastEvent = "connectFailed"
    /\ ~isConnecting
    /\ auto_connect /\ mounted

\* C20: a teardown (auto_connect switched off, endpoint changed, unmount)
\* leaves the tokenpool_connect calls in flight and the flag as they are; a
\* set flag always has such a call outstanding, and the flag is cleared in
\* the end, so that a later check passes the guard again.
C20_TeardownKeepsAttempt ==
    /\ [][/\ lastEvent' \in {"effect", "unmount"} =>
               /\ isConnecting' = isConnecting
               /\ \A c \in PcCalls("connect") :
                     CopiesIn(c, calls') >= CopiesIn(c, calls)
          /\ isConnecting' => ConnectsInFlight' >= 1]_vars
    /\ isConnecting ~> ~isConnecting

C20_Witness ==
    /\ lastEvent \in {"effect", "unmount"}
    /\ ~auto_connect \/ ~mounted
    /\ timers = {}
    /\ isConnecting
    /\ ConnectsInFlight >= 1

\* C21: a rejected status query issues no connect call and leaves the
\* in-flight flag and the timer as they are; a tick that follows with the
\* flag clear queries the status again.
C21_StatusFailureSkipsTick ==
    [][/\ lastEvent' = "statusFailed" =>
             /\ isConnecting' = isConnecting
             /\ ConnectsInFlight' = ConnectsInFlight
             /\ StatusInFlight' = StatusInFlight - 1
             /\ timers' = timers /\ retryInterval' = retryInterval
             /\ (auto_connect' /\ mounted') => timers' # {}
       /\ (lastEvent = "statusFailed" /\ lastEvent' = "tick"
              /\ ~isConnecting) =>
             /\ checkRan' = "queried"
             /\ StatusInFlight' = StatusInFlight + 1]_vars

C21_Witness ==
    /\ lastEvent = "statusFailed"
    /\ auto_connect /\ mounted
    /\ isConnecting
    /\ ConnectsInFlight = 1
    /\ timers # {}

\* C22: a tick that starts with the flag set issues no call at all; a
\* status query is issued only with the flag clear; a connect call is
\* issued only on a status of Disconnected or Error, and a status of
\* Connected or Connecting leaves the connect calls and the flag alone.
C22_TickGuards ==
    [][/\ (lastEvent' = "tick" /\ isConnecting) =>
             /\ calls' = calls
             /\ checkRan' = "skipped"
       /\ StatusInFlight' > StatusInFlight =>
             /\ ~isConnecting
             /\ lastEvent' \in {"tick", "effect"}
       /\ ConnectsInFlight' > ConnectsInFlight =>
             /\ lastEvent' = "statusDown"
             /\ StatusInFlight' = StatusInFlight - 1
       /\ lastEvent' = "statusUp" =>
             /\ ConnectsInFlight' = ConnectsInFlight
             /\ isConnecting' = isConnecting]_vars

C22_Witness ==
    /\ lastEvent = "tick"
    /\ checkRan = "skipped"
    /\ isConnecting
    /\ StatusInFlight = 0

\* C23: while the hook is mounted there is exactly one timer when
\* auto_connect is enabled, the one retryInterval refers to, made for the
\* configured endpoint, and none when it is disabled; a change of
\* server_url replaces the timer within the step.
C23_ExactlyOneTimer ==
    /\ (mounted /\ auto_connect) =>
          timers = {[id |-> retryInterval, url |-> serverUrl(server_url)]}
    /\ (mounted /\ auto_connect) => retryInterval # 0
    /\ (~mounted \/ ~auto_connect) => timers = {}
    /\ Cardinality(timers) <= 1

C23_Witness ==
    /\ lastEvent = "effect"
    /\ mounted /\ auto_connect
    /\ server_url = "ws://b/ws/supplier"
    /\ Cardinality(timers) = 1
    /\ \E c \in BagToSet(calls) : c.url = "ws://a/ws/supplier"

\* C24: a tokenpool_connect call issued by the watchdog carries the endpoint
\* configured in the state it is issued in.
C24_ConnectUsesCurrentEndpoint ==
    [][\A c \in BagToSet(calls') :
          (c.pc = "connect" /\ CopiesIn(c, calls') > CopiesIn(c, calls))
              => c.url = serverUrl(server_url')]_vars

\* C25: a tokenpool_connect call is issued by the watchdog only while
\* auto_connect is enabled and the hook is mounted.
C25_NoConnectAfterDisable ==
    [][ConnectsInFlight' > ConnectsInFlight
          => (auto_connect /\ mounted)]_vars

\* C26: the in-flight flag is set exactly when a tokenpool_connect call of
\* the watchdog is outstanding.
C26_FlagIffConnectOutstanding ==
    isConnecting <=> ConnectsInFlight >= 1

\* C27: the tokenpool_connect calls of checkAndConnect and of handleToggle
\* together: one outstanding at most.
C27_SingleConnectWithManual ==
    ConnectsInFlight + ManualConnectsInFlight <= 1

\* C28: an applied updateTimePoint of window idx leaves every other window
\* and the fields enabled, warmup_mode, peak_hours and monitored_models as
\* they were.
C28_UpdateChangesOnlyWindow ==
    [][(/\ lastCall'.op \in {"updateTimePoint.start",
                             "updateTimePoint.enabled"}
        /\ lastCall'.result = "applied")
       => scheduled_warmup' =
             [scheduled_warmup EXCEPT
                 !.schedules[lastCall'.idx] =
                     scheduled_warmup'.schedules[lastCall'.idx]]]_vars

\* C29: handleToggle invokes tokenpool_disconnect exactly when the button
\* it was clicked on read Disconnect, and tokenpool_connect exactly when it
\* read Connect.
C29_ToggleDoesWhatButtonShows ==
    card.last # "none" =>
        /\ card.last = "disconnect" <=> card.shown = "Disconnect"
        /\ card.last = "connect" <=> card.shown = "Connect"

\* C30: with auto_connect staying enabled, calls that settle and a remote
\* that stays Disconnected or Error, the watchdog issues a connect call in
\* the end, and again after each failed attempt.
C30_ReconnectsEventually ==
    /\ auto_connect ~> lastEvent = "statusDown"
    /\ lastEvent = "connectFailed" ~> lastEvent = "statusDown"

C30_Witness ==
    /\ lastEvent = "connectFailed"
    /\ auto_connect /\ mounted
    /\ ~isConnecting
    /\ timers # {}
    /\ calls = EmptyBag

====
